---- MODULE Spec2Model ----
(***************************************************************************)
(* State-machine model of gitvck.VersionCheck                               *)
(* (src/build/lib/gitvck/gitvck.py), and of the legacy single-repository   *)
(* VersionCheck (src/gitvck.py).                                           *)
(*                                                                         *)
(* Strings are sequences of one-character strings, so that lower-casing,   *)
(* splitting and version parsing are computed character by character.      *)
(* Version candidates are spelled with the digits, ".", "v", "a", "b",     *)
(* "c" and "x".  Over these characters the version grammar of              *)
(* packaging.version reduces to                                            *)
(*      v? N(.N)* ( .? (a|b|c) .? N? )?                                     *)
(* (no epoch "!", no post/dev/local segment can be spelled).               *)
(***************************************************************************)
EXTENDS Integers, Sequences, FiniteSets, TLC

VARIABLES
    args,       \* the constructor arguments: name, source, path, version
    name,       \* self._name
    src,        \* self._src
    path,       \* self._path
    vers,       \* self._vers
    extvers,    \* self._extvers
    metadata,   \* what importlib.metadata.version(name) does now
    git,        \* what `git ls-remote ... path` does now
    pypi,       \* what GET https://pypi.org/pypi/<name>/json does now
    result,     \* value returned by the last test() call
    out,        \* messages printed by the last test() call, in order
    io,         \* collaborators invoked by the last test() call, in order
    steps,      \* pipeline methods entered by the last test() call, in order
    raised,     \* exception that propagated out of the last test() call
    ncalls,     \* number of test() calls made on the object
    changed,    \* a collaborator changed its behaviour since the last call
    prev,       \* result and messages of the call before the last one
    repeat,     \* the last call found the collaborators as the call before it
    legacy      \* the legacy VersionCheck object and the repository it describes

vars == <<args, name, src, path, vers, extvers, metadata, git, pypi,
          result, out, io, steps, raised, ncalls, changed, prev, repeat, legacy>>

\* Number of test() calls made on one object.
MaxCalls == 3

\* Python's None: a value that is no string of the model.
None == <<"<None>">>

\* "No exception".
NoExc == ""

----------------------------------------------------------------------------
(* Character-level helpers *)

Digits == {"0", "1", "2", "3", "4", "5", "6", "7", "8", "9"}

IsDigit(c) == c \in Digits

DigitVal(c) ==
    CASE c = "0" -> 0 [] c = "1" -> 1 [] c = "2" -> 2 [] c = "3" -> 3
      [] c = "4" -> 4 [] c = "5" -> 5 [] c = "6" -> 6 [] c = "7" -> 7
      [] c = "8" -> 8 [] c = "9" -> 9

\* str.lower() on one character (the upper-case letters of the model).
LowerChar(c) ==
    CASE c = "G" -> "g" [] c = "I" -> "i" [] c = "T" -> "t"
      [] c = "P" -> "p" [] c = "Y" -> "y" [] c = "S" -> "s" [] c = "V" -> "v"
      [] OTHER -> c

\* Mutant of Lower: the source argument is kept as given.
lower_identity(s) == s

\* str.lower()
Lower(s) == [i \in 1..Len(s) |-> LowerChar(s[i])]

\* Index of the first separator at or after i, Len(s)+1 when there is none.
RECURSIVE FindSep(_, _, _)
FindSep(s, sep, i) ==
    IF i > Len(s) \/ s[i] = sep THEN i ELSE FindSep(s, sep, i + 1)

\* str.split(sep): the pieces between separators, empty pieces included.
RECURSIVE SplitFrom(_, _, _)
SplitFrom(s, sep, i) ==
    LET j == FindSep(s, sep, i)
    IN  IF j > Len(s)
        THEN <<SubSeq(s, i, Len(s))>>
        ELSE <<SubSeq(s, i, j - 1)>> \o SplitFrom(s, sep, j + 1)

Split(s, sep) == SplitFrom(s, sep, 1)

\* list(filter(None, pieces)): the non-empty pieces.
FilterNonEmpty(pieces) == SelectSeq(pieces, LAMBDA p : p # <<>>)

----------------------------------------------------------------------------
(* packaging.version: parse and ordering *)

\* Index after the maximal run of digits starting at i.
RECURSIVE DigitsEnd(_, _)
DigitsEnd(s, i) ==
    IF i <= Len(s) /\ IsDigit(s[i]) THEN DigitsEnd(s, i + 1) ELSE i

\* int() of the digits s[i..j-1]; acc is the value read so far.
RECURSIVE Num(_, _, _, _)
Num(s, i, j, acc) ==
    IF i >= j THEN acc ELSE Num(s, i + 1, j, 10 * acc + DigitVal(s[i]))

\* The release segment N(.N)* starting at i: its numbers and the index after.
\* rel = <<>> when no digit stands at i.
RECURSIVE Release(_, _)
Release(s, i) ==
    LET j == DigitsEnd(s, i)
    IN  IF j = i
        THEN [rel |-> <<>>, next |-> i]
        ELSE IF j + 1 <= Len(s) /\ s[j] = "." /\ IsDigit(s[j + 1])
             THEN LET r == Release(s, j + 1)
                  IN  [rel |-> <<Num(s, i, j, 0)>> \o r.rel, next |-> r.next]
             ELSE [rel |-> <<Num(s, i, j, 0)>>, next |-> j]

\* Rank of a pre-release letter: a < b < rc ("c" is normalised to "rc").
PreRank(c) == CASE c = "a" -> 0 [] c = "b" -> 1 [] c = "c" -> 2

\* Key of a version without pre-release: it sorts after every pre-release.
FinalPre == <<3, 0>>

\* The optional pre-release segment .?(a|b|c).?N? starting at i.
\* ok is FALSE when the text at i is neither empty nor such a segment to the
\* end of the string.
PreRelease(s, i) ==
    IF i > Len(s)
    THEN [ok |-> TRUE, pre |-> FinalPre]
    ELSE LET k == IF s[i] = "." THEN i + 1 ELSE i
         IN  IF k > Len(s) \/ s[k] \notin {"a", "b", "c"}
             THEN [ok |-> FALSE, pre |-> FinalPre]
             ELSE LET m == IF k + 1 <= Len(s) /\ s[k + 1] = "." THEN k + 2 ELSE k + 1
                      e == DigitsEnd(s, m)
                  IN  [ok |-> e = Len(s) + 1,
                       pre |-> <<PreRank(s[k]), Num(s, m, e, 0)>>]

\* Release numbers without trailing zeros (1.0 == 1.0.0).
RECURSIVE StripZeros(_)
StripZeros(rel) ==
    IF rel # <<>> /\ rel[Len(rel)] = 0
    THEN StripZeros(SubSeq(rel, 1, Len(rel) - 1))
    ELSE rel

\* packaging.version.parse on a string: valid is FALSE where it raises
\* InvalidVersion.
Parse(s) ==
    LET i == IF Len(s) >= 1 /\ s[1] = "v" THEN 2 ELSE 1
        r == Release(s, i)
        p == PreRelease(s, r.next)
    IN  IF r.rel = <<>> \/ ~p.ok
        THEN [valid |-> FALSE, release |-> <<>>, pre |-> FinalPre]
        ELSE [valid |-> TRUE, release |-> StripZeros(r.rel), pre |-> p.pre]

\* Python's tuple ordering on sequences of integers.
RECURSIVE SeqLess(_, _)
SeqLess(a, b) ==
    IF a = <<>> THEN b # <<>>
    ELSE IF b = <<>> THEN FALSE
    ELSE IF a[1] # b[1] THEN a[1] < b[1]
    ELSE SeqLess(Tail(a), Tail(b))

\* Version.__lt__: the comparison key is (release, pre).
VersionLess(a, b) ==
    \/ SeqLess(a.release, b.release)
    \/ a.release = b.release /\ SeqLess(a.pre, b.pre)

----------------------------------------------------------------------------
(* Values the inputs are drawn from *)

Spam   == <<"s", "p", "a", "m">>
GitSrc == <<"g", "i", "t">>
PypiSrc == <<"p", "y", "p", "i">>

V10     == <<"1", ".", "0">>
V100    == <<"1", ".", "0", ".", "0">>
V130    == <<"1", ".", "3", ".", "0">>
V130a1  == <<"1", ".", "3", ".", "0", "a", "1">>
Vv09    == <<"v", "0", ".", "9">>
Vv130   == <<"v", "1", ".", "3", ".", "0">>
V1abc1  == <<"1", ".", "a", "b", "c", ".", "1">>
Vx      == <<"x">>

Names    == {Spam}
Sources  == {GitSrc, PypiSrc, <<"G", "I", "T">>, <<"P", "y", "P", "I">>, <<"s", "v", "n">>}
Paths    == {None, <<>>, <<"/", "r">>}
Versions == {None, V10, V130a1, V1abc1}

\* importlib.metadata.version(name): the installed version, or
\* PackageNotFoundError, or another exception.
NotInstalled == [exc |-> "PackageNotFoundError", version |-> None]
MetadataResponses ==
    { NotInstalled,
      [exc |-> NoExc, version |-> V10],
      [exc |-> NoExc, version |-> V130],
      [exc |-> NoExc, version |-> Vx],
      [exc |-> "ValueError", version |-> None] }

\* One line of `git ls-remote --tags --refs` output for a tag.
RefLine(tag) ==
    <<"h", "\t", "r", "e", "f", "s", "/", "t", "a", "g", "s", "/">> \o tag \o <<"\n">>

Fatal == <<"f", "a", "t", "a", "l", ":">>

\* subprocess.Popen(cmd).communicate(): return code, stdout, stderr; or Popen
\* raises (no git executable).
GitFails == [exc |-> NoExc, returncode |-> 128, stdout |-> <<>>, stderr |-> Fatal]
GitResponses ==
    { GitFails,
      [exc |-> NoExc, returncode |-> 0, stdout |-> <<>>, stderr |-> <<>>],
      [exc |-> NoExc, returncode |-> 0,
       stdout |-> RefLine(Vv09) \o RefLine(Vv130), stderr |-> <<>>],
      [exc |-> NoExc, returncode |-> 0, stdout |-> RefLine(V100), stderr |-> <<>>],
      [exc |-> NoExc, returncode |-> 0, stdout |-> RefLine(Vx), stderr |-> <<>>],
      [exc |-> NoExc, returncode |-> 0,
       stdout |-> RefLine(Vv130) \o RefLine(Vv09), stderr |-> <<>>],
      [exc |-> NoExc, returncode |-> 0,
       stdout |-> RefLine(Vv09) \o <<"\n">> \o RefLine(V100) \o <<"\n", "\n">>,
       stderr |-> <<>>],
      [exc |-> NoExc, returncode |-> 0, stdout |-> <<"\n">>, stderr |-> <<>>],
      [exc |-> "FileNotFoundError", returncode |-> 0, stdout |-> <<>>, stderr |-> <<>>] }

\* requests.get(URI, timeout=5): the status code and the body, or the request
\* raises.  The body is "json" (a document with info.version = version),
\* "nokey" (JSON without info.version) or "notjson".
RegistryMissing == [exc |-> NoExc, status |-> 404, body |-> "notjson", version |-> None]
PypiResponses ==
    { RegistryMissing,
      [exc |-> NoExc, status |-> 200, body |-> "json", version |-> V100],
      [exc |-> NoExc, status |-> 200, body |-> "json", version |-> V130],
      [exc |-> NoExc, status |-> 200, body |-> "nokey", version |-> None],
      [exc |-> NoExc, status |-> 200, body |-> "notjson", version |-> None],
      [exc |-> "ConnectionError", status |-> 0, body |-> "notjson", version |-> None] }

\* The behaviours a collaborator is given for a request.  A collaborator the
\* request names no query for (installed metadata when a version is
\* passed, git for a request without a 'git' source and path, the registry
\* for a request without a 'pypi' source) is held at one behaviour.
MetadataFor(a) == IF a.version = None THEN MetadataResponses ELSE {NotInstalled}
GitFor(a) ==
    IF Lower(a.source) = GitSrc /\ a.path # None THEN GitResponses ELSE {GitFails}
PypiFor(a) ==
    IF Lower(a.source) = PypiSrc THEN PypiResponses ELSE {RegistryMissing}

----------------------------------------------------------------------------
(* Messages and exceptions *)

\* One printed message: its kind, the exception named in a traceback, and
\* the values formatted into the text, in the order they appear.
Msg(kind, exc, text) == [kind |-> kind, exc |-> exc, text |-> text]

\* msg of _get_version_internal
NotInstalledMsg(n) == Msg("not installed", NoExc, <<n>>)
\* msg of _version_is_valid
InvalidMsg(v) == Msg("invalid version", NoExc, <<v>>)
\* the warning of _get_version_from_git
GitErrorMsg(stderr) == Msg("Git error", NoExc, <<stderr>>)
\* msg of _get_version_external
NotFoundMsg(n) == Msg("could not be found", NoExc, <<n>>)
\* msg of _new_version_available
LaterMsg(n, v, e) == Msg("later version", NoExc, <<n, v, e>>)
\* print('', traceback.format_exc(), sep='\n'): the last line names the exception
TracebackMsg(exc, text) == Msg("Traceback", exc, text)

\* Mutant of Catches: `except RuntimeError` instead of `except Exception`.
CatchesRuntimeErrorOnly(exc) ==
    exc \in { "RuntimeError: Invalid source argument provided",
              "RuntimeError: A path argument must be provided for a 'git' source." }

\* The classes `except Exception` catches: every exception the pipeline and
\* its collaborators raise is an Exception.
Catches(exc) ==
    exc \in { "RuntimeError: Invalid source argument provided",
              "RuntimeError: A path argument must be provided for a 'git' source.",
              "ValueError", "FileNotFoundError", "ConnectionError",
              "JSONDecodeError", "KeyError", "TypeError", "InvalidVersion" }

----------------------------------------------------------------------------
(* The methods of VersionCheck.  Each takes the running context c of one   *)
(* test() call and returns the context after it:                           *)
(*   vers, extvers   the two attributes the pipeline assigns               *)
(*   s               the local s of test()                                 *)
(*   ret             the value the method returned                         *)
(*   exc, exctext    the exception in flight (NoExc: none) and the values  *)
(*                   formatted into its message                            *)
(*   out, io, steps  printed messages, collaborators invoked, methods      *)
(*                   entered                                               *)

_SOURCES == {GitSrc, PypiSrc}

Enter(c, method) == [c EXCEPT !.steps = Append(@, method), !.ret = FALSE]

Raise(c, exc, text) == [c EXCEPT !.exc = exc, !.exctext = text]

Return(c, value) == [c EXCEPT !.ret = value]

Warn(c, msg) == [c EXCEPT !.out = Append(@, msg)]

\* Mutant of _version_is_valid: InvalidVersion is caught without a warning.
version_is_valid_silent(c, version) ==
    IF version = None
    THEN Raise(c, "TypeError", <<>>)
    ELSE Return(c, Parse(version).valid)

_version_is_valid(c, version) ==
    IF version = None
    THEN Raise(c, "TypeError", <<>>)
    ELSE IF Parse(version).valid
         THEN Return(c, TRUE)
         ELSE Return(Warn(c, InvalidMsg(version)), FALSE)

\* Mutant of verify_args: the check of a missing path is dropped.
verify_args_no_path_check(c, self) ==
    IF self.src \notin _SOURCES
    THEN Raise(Enter(c, "_verify_args"),
               "RuntimeError: Invalid source argument provided", <<self.src>>)
    ELSE Return(Enter(c, "_verify_args"), TRUE)

\* Mutant of _verify_args: `not self._path` instead of `self._path is None`.
verify_args_rejects_empty_path(c, self) ==
    LET c1 == Enter(c, "_verify_args")
    IN  IF self.src \notin _SOURCES
        THEN Raise(c1, "RuntimeError: Invalid source argument provided", <<self.src>>)
        ELSE IF self.src = GitSrc /\ self.path \in {None, <<>>}
             THEN Raise(c1, "RuntimeError: A path argument must be provided for a 'git' source.",
                        <<>>)
             ELSE Return(c1, TRUE)

_verify_args(c, self) ==
    LET c1 == Enter(c, "_verify_args")
    IN  IF self.src \notin _SOURCES
        THEN Raise(c1, "RuntimeError: Invalid source argument provided", <<self.src>>)
        ELSE IF self.src = GitSrc /\ self.path = None
             THEN Raise(c1, "RuntimeError: A path argument must be provided for a 'git' source.",
                        <<>>)
             ELSE Return(c1, TRUE)

\* Mutant of get_version_internal: the installed version is stored whether
\* or not it is valid.
get_version_internal_keeps_invalid(c, self, env) ==
    LET c1 == Enter(c, "_get_version_internal")
    IN  IF c1.vers = None
        THEN LET c2 == [c1 EXCEPT !.io = Append(@, "metadata")]
                 m  == env.metadata
             IN  IF m.exc = "PackageNotFoundError"
                 THEN Return(Warn(c2, NotInstalledMsg(self.name)), FALSE)
                 ELSE IF m.exc # NoExc
                      THEN Raise(c2, m.exc, <<>>)
                      ELSE LET c3 == _version_is_valid(c2, m.version)
                           IN  IF c3.exc # NoExc THEN c3
                               ELSE Return([c3 EXCEPT !.vers = m.version], TRUE)
        ELSE Return(c1, TRUE)

\* Mutant of get_version_internal: `return True` instead of
\* `return self._vers is not None`.
get_version_internal_returns_true(c, self, env) ==
    LET c1 == Enter(c, "_get_version_internal")
    IN  IF c1.vers = None
        THEN LET c2 == [c1 EXCEPT !.io = Append(@, "metadata")]
                 m  == env.metadata
             IN  IF m.exc = "PackageNotFoundError"
                 THEN Return(Warn(c2, NotInstalledMsg(self.name)), TRUE)
                 ELSE IF m.exc # NoExc
                      THEN Raise(c2, m.exc, <<>>)
                      ELSE LET c3 == _version_is_valid(c2, m.version)
                           IN  IF c3.exc # NoExc THEN c3
                               ELSE IF c3.ret
                                    THEN Return([c3 EXCEPT !.vers = m.version], TRUE)
                                    ELSE Return(c3, TRUE)
        ELSE Return(c1, TRUE)

_get_version_internal(c, self, env) ==
    LET c1 == Enter(c, "_get_version_internal")
    IN  IF c1.vers = None
        THEN LET c2 == [c1 EXCEPT !.io = Append(@, "metadata")]
                 m  == env.metadata
             IN  IF m.exc = "PackageNotFoundError"
                 THEN Return(Warn(c2, NotInstalledMsg(self.name)), FALSE)
                 ELSE IF m.exc # NoExc
                      THEN Raise(c2, m.exc, <<>>)
                      ELSE LET c3 == _version_is_valid(c2, m.version)
                           IN  IF c3.exc # NoExc THEN c3
                               ELSE IF c3.ret
                                    THEN Return([c3 EXCEPT !.vers = m.version], TRUE)
                                    ELSE Return(c3, FALSE)
        ELSE Return(c1, TRUE)

\* Mutant of _parse_git_output: data_[0] instead of data_[-1].
_parse_git_output_first_line(c, data) ==
    LET data_ == FilterNonEmpty(Split(data, "\n"))
    IN  IF data_ # <<>>
        THEN LET fields == Split(data_[1], "/")
             IN  [c EXCEPT !.extvers = fields[Len(fields)]]
        ELSE c

_parse_git_output(c, data) ==
    LET data_ == FilterNonEmpty(Split(data, "\n"))
    IN  IF data_ # <<>>
        THEN LET latest == data_[Len(data_)]
                 fields == Split(latest, "/")
             IN  [c EXCEPT !.extvers = fields[Len(fields)]]
        ELSE c

_get_version_from_git(c, self, env) ==
    LET c1 == [c EXCEPT !.io = Append(@, "git")]
        g  == env.git
    IN  IF g.exc # NoExc
        THEN Raise(c1, g.exc, <<>>)
        ELSE IF g.returncode = 0
             THEN _parse_git_output(c1, g.stdout)
             ELSE Warn(c1, GitErrorMsg(g.stderr))

_get_version_from_pypi(c, self, env) ==
    LET c1 == [c EXCEPT !.io = Append(@, "http")]
        r  == env.pypi
    IN  IF r.exc # NoExc
        THEN Raise(c1, r.exc, <<>>)
        ELSE IF r.status = 200
             THEN CASE r.body = "notjson" -> Raise(c1, "JSONDecodeError", <<>>)
                    [] r.body = "nokey"   -> Raise(c1, "KeyError", <<>>)
                    [] r.body = "json"    -> [c1 EXCEPT !.extvers = r.version]
             ELSE c1

_get_version_external(c, self, env) ==
    LET c1 == Enter(c, "_get_version_external")
        c2 == IF self.src = GitSrc THEN _get_version_from_git(c1, self, env)
              ELSE IF self.src = PypiSrc THEN _get_version_from_pypi(c1, self, env)
              ELSE c1
    IN  IF c2.exc # NoExc THEN c2
        ELSE IF c2.extvers = None
             THEN Return(Warn(c2, NotFoundMsg(self.name)), FALSE)
             ELSE Return(c2, TRUE)

\* Mutant of verify_version_numbers: `a and b` instead of all((a, b)), so
\* the external version is not looked at once the local one is invalid.
verify_version_numbers_short_circuit(c) ==
    LET c1 == Enter(c, "_verify_version_numbers")
        a  == _version_is_valid(c1, c1.vers)
    IN  IF a.exc # NoExc \/ ~a.ret THEN a ELSE _version_is_valid(a, c1.extvers)

\* Mutant of _verify_version_numbers: any((a, b)) instead of all((a, b)).
verify_version_numbers_any(c) ==
    LET c1 == Enter(c, "_verify_version_numbers")
        a  == _version_is_valid(c1, c1.vers)
        b  == IF a.exc # NoExc THEN a ELSE _version_is_valid(a, c1.extvers)
    IN  IF b.exc # NoExc THEN b ELSE Return(b, a.ret \/ b.ret)

_verify_version_numbers(c) ==
    LET c1 == Enter(c, "_verify_version_numbers")
        a  == _version_is_valid(c1, c1.vers)
        b  == IF a.exc # NoExc THEN a ELSE _version_is_valid(a, c1.extvers)
    IN  IF b.exc # NoExc THEN b ELSE Return(b, a.ret /\ b.ret)

_new_version_available(c, self) ==
    Warn(c, LaterMsg(self.name, c.vers, c.extvers))

\* The exception pkgversion.parse(version) raises: TypeError for None,
\* InvalidVersion for a string outside the version grammar, none otherwise.
ParseExc(version) ==
    IF version = None THEN "TypeError"
    ELSE IF ~Parse(version).valid THEN "InvalidVersion"
    ELSE NoExc

\* Mutant of compare: `<=` instead of `<`.
compare_less_or_equal(c, self) ==
    LET c1 == Enter(c, "_compare")
    IN  IF ParseExc(c1.vers) # NoExc
        THEN Raise(c1, ParseExc(c1.vers), <<>>)
        ELSE IF ParseExc(c1.extvers) # NoExc
             THEN Raise(c1, ParseExc(c1.extvers), <<>>)
             ELSE IF ~VersionLess(Parse(c1.extvers), Parse(c1.vers))
                  THEN Return(_new_version_available(c1, self), FALSE)
                  ELSE Return(c1, TRUE)

_compare(c, self) ==
    LET c1 == Enter(c, "_compare")
    IN  IF ParseExc(c1.vers) # NoExc
        THEN Raise(c1, ParseExc(c1.vers), <<>>)
        ELSE IF ParseExc(c1.extvers) # NoExc
             THEN Raise(c1, ParseExc(c1.extvers), <<>>)
             ELSE IF VersionLess(Parse(c1.vers), Parse(c1.extvers))
                  THEN Return(_new_version_available(c1, self), FALSE)
                  ELSE Return(c1, TRUE)

\* `s = method()`: s is assigned when the method returns, not when it raises.
Assign(c) == IF c.exc = NoExc THEN [c EXCEPT !.s = c.ret] ELSE c

\* `if s: s = method()` inside the try block.
IfS(c, after) == IF c.exc = NoExc /\ c.s THEN Assign(after) ELSE c

\* The context test() starts from.
Start(self) ==
    [vers |-> self.vers, extvers |-> self.extvers, s |-> FALSE, ret |-> FALSE,
     exc |-> NoExc, exctext |-> <<>>, out |-> <<>>, io |-> <<>>, steps |-> <<>>,
     propagated |-> NoExc]

\* `except Exception: print('', traceback.format_exc(), sep='\n')`
Except(c) ==
    IF c.exc = NoExc THEN c
    ELSE IF Catches(c.exc)
         THEN Warn(c, TracebackMsg(c.exc, c.exctext))
         ELSE [c EXCEPT !.propagated = c.exc]

\* VersionCheck.test(): the context at `return s`.
test(self, env) ==
    LET c0 == Start(self)
        a  == _verify_args(c0, self)
        c1 == IF a.exc = NoExc /\ a.ret
              THEN Assign(_get_version_internal(a, self, env))
              ELSE a
        c2 == IfS(c1, _get_version_external(c1, self, env))
        c3 == IfS(c2, _verify_version_numbers(c2))
        c4 == IfS(c3, _compare(c3, self))
    IN  Except(c4)

----------------------------------------------------------------------------
(* The legacy single-repository variant (src/gitvck.py) *)

\* Local versions handed to the legacy VersionCheck(v).
V09 == <<"0", ".", "9">>
LegacyVersions == {V09, V10, V100, V130, V130a1, Vv09, Vv130}

\* os.path.exists(REPO) and, where the path exists, what
\* run(['git', 'describe', '--tags'], cwd=REPO, stdout=PIPE) does.
Described(text) ==
    [exists |-> TRUE, exc |-> NoExc, returncode |-> 0, stdout |-> text \o <<"\n">>]
RepoMissing == [exists |-> FALSE, exc |-> NoExc, returncode |-> 0, stdout |-> <<>>]
RepoStates ==
    { RepoMissing,
      [exists |-> TRUE, exc |-> "FileNotFoundError", returncode |-> 0, stdout |-> <<>>],
      [exists |-> TRUE, exc |-> NoExc, returncode |-> 128, stdout |-> <<>>],
      Described(Vv09),
      Described(Vv130),
      Described(<<"v">> \o V100),
      Described(<<"v">> \o V130a1),
      Described(V130),
      Described(Vv130 \o <<"-", "2", "-", "g", "a", "b", "c">>) }

\* str.strip() over the whitespace of the model.
RECURSIVE Strip(_)
Strip(s) ==
    IF s # <<>> /\ s[1] \in {"\n", " "} THEN Strip(Tail(s))
    ELSE IF s # <<>> /\ s[Len(s)] \in {"\n", " "} THEN Strip(SubSeq(s, 1, Len(s) - 1))
    ELSE s

\* re.compile('^v(.*)$').findall(s): the groups matched, for a text without
\* a trailing newline; "." matches no newline.
FindAllV(s) ==
    IF s # <<>> /\ s[1] = "v" /\ \A i \in 2..Len(s) : s[i] # "\n"
    THEN <<Tail(s)>>
    ELSE <<>>

\* VersionCheck._git_version(): the value returned or the exception raised.
_git_version(repo) ==
    IF ~repo.exists THEN [exc |-> NoExc, ret |-> <<>>]
    ELSE IF repo.exc # NoExc THEN [exc |-> repo.exc, ret |-> <<>>]
    ELSE IF repo.returncode # 0 THEN [exc |-> NoExc, ret |-> <<>>]
    ELSE LET found == FindAllV(Strip(repo.stdout))
         IN  IF found = <<>>
             THEN [exc |-> "IndexError", ret |-> <<>>]
             ELSE [exc |-> NoExc, ret |-> found[1]]

\* The warning of VersionCheck._alert().
AlertMsg(v, g) == Msg("newer version", NoExc, <<v, g>>)

\* VersionCheck.test() of the legacy variant: the messages printed and the
\* exception raised; version.parse raises InvalidVersion for a string outside
\* the version grammar.
legacy_test(v, g) ==
    IF ~Parse(v).valid \/ ~Parse(g).valid
    THEN [exc |-> "InvalidVersion", out |-> <<>>]
    ELSE IF VersionLess(Parse(v), Parse(g))
         THEN [exc |-> NoExc, out |-> <<AlertMsg(v, g)>>]
         ELSE [exc |-> NoExc, out |-> <<>>]

\* The legacy object before VersionCheck(v) is evaluated.
LegacyNew(v, repo) ==
    [v |-> v, repo |-> repo, pc |-> "new", git |-> <<>>, out |-> <<>>, raised |-> NoExc]

\* The legacy variant is not in use.
LegacyIdle == LegacyNew(V10, RepoMissing)

----------------------------------------------------------------------------
(* The state machine *)

Self == [name |-> name, src |-> src, path |-> path, vers |-> vers, extvers |-> extvers]

Env == [metadata |-> metadata, git |-> git, pypi |-> pypi]

\* VersionCheck.__init__, and the collaborators as they are at that time.
Init ==
    /\ args \in [name : Names, source : Sources, path : Paths, version : Versions]
    /\ name = args.name
    /\ src = Lower(args.source)
    /\ path = args.path
    /\ vers = args.version
    /\ extvers = None
    /\ metadata \in MetadataFor(args)
    /\ git \in GitFor(args)
    /\ pypi \in PypiFor(args)
    /\ result = FALSE
    /\ out = <<>>
    /\ io = <<>>
    /\ steps = <<>>
    /\ raised = NoExc
    /\ ncalls = 0
    /\ changed = FALSE
    /\ prev = [result |-> FALSE, out |-> <<>>]
    /\ repeat = FALSE
    /\ legacy = LegacyIdle

\* One call of test() on the object.
Test ==
    /\ ncalls < MaxCalls
    /\ \E c \in {test(Self, Env)} :
           /\ vers' = c.vers
           /\ extvers' = c.extvers
           /\ result' = c.s
           /\ out' = c.out
           /\ io' = c.io
           /\ steps' = c.steps
           /\ raised' = c.propagated
    /\ ncalls' = ncalls + 1
    /\ changed' = FALSE
    /\ prev' = [result |-> result, out |-> out]
    /\ repeat' = (ncalls >= 1 /\ ~changed)
    /\ UNCHANGED <<args, name, src, path, metadata, git, pypi, legacy>>

\* The project is installed, upgraded or uninstalled.
MetadataChange ==
    /\ ncalls < MaxCalls
    /\ \E m \in MetadataFor(args) \ {metadata} : metadata' = m
    /\ changed' = TRUE
    /\ UNCHANGED <<args, name, src, path, vers, extvers, git, pypi,
                   result, out, io, steps, raised, ncalls, prev, repeat, legacy>>

\* The repository at path gets tags, loses them or becomes unreachable.
GitChange ==
    /\ ncalls < MaxCalls
    /\ \E g \in GitFor(args) \ {git} : git' = g
    /\ changed' = TRUE
    /\ UNCHANGED <<args, name, src, path, vers, extvers, metadata, pypi,
                   result, out, io, steps, raised, ncalls, prev, repeat, legacy>>

\* The registry publishes a release, or becomes unreachable.
PypiChange ==
    /\ ncalls < MaxCalls
    /\ \E r \in PypiFor(args) \ {pypi} : pypi' = r
    /\ changed' = TRUE
    /\ UNCHANGED <<args, name, src, path, vers, extvers, metadata, git,
                   result, out, io, steps, raised, ncalls, prev, repeat, legacy>>

Next == Test \/ MetadataChange \/ GitChange \/ PypiChange

Spec == Init /\ [][Next]_vars

\* The variables of the package's VersionCheck.
main == <<args, name, src, path, vers, extvers, metadata, git, pypi,
          result, out, io, steps, raised, ncalls, changed, prev, repeat>>

\* A program that uses the legacy variant only.
InitLegacy ==
    /\ args = [name |-> Spam, source |-> PypiSrc, path |-> None, version |-> V10]
    /\ name = args.name
    /\ src = Lower(args.source)
    /\ path = args.path
    /\ vers = args.version
    /\ extvers = None
    /\ metadata = NotInstalled
    /\ git = GitFails
    /\ pypi = RegistryMissing
    /\ result = FALSE
    /\ out = <<>>
    /\ io = <<>>
    /\ steps = <<>>
    /\ raised = NoExc
    /\ ncalls = 0
    /\ changed = FALSE
    /\ prev = [result |-> FALSE, out |-> <<>>]
    /\ repeat = FALSE
    /\ legacy \in {LegacyNew(v, repo) : v \in LegacyVersions, repo \in RepoStates}

\* VersionCheck(v): __init__ stores v and the described version.
LegacyConstruct ==
    /\ legacy.pc = "new"
    /\ \E r \in {_git_version(legacy.repo)} :
           legacy' = IF r.exc # NoExc
                     THEN [legacy EXCEPT !.pc = "raised", !.raised = r.exc]
                     ELSE [legacy EXCEPT !.pc = "constructed", !.git = r.ret]
    /\ UNCHANGED main

\* test() on the constructed legacy object.
LegacyTest ==
    /\ legacy.pc = "constructed"
    /\ \E r \in {legacy_test(legacy.v, legacy.git)} :
           legacy' = IF r.exc # NoExc
                     THEN [legacy EXCEPT !.pc = "raised", !.raised = r.exc]
                     ELSE [legacy EXCEPT !.pc = "tested", !.out = r.out]
    /\ UNCHANGED main

NextLegacy == LegacyConstruct \/ LegacyTest

SpecLegacy == InitLegacy /\ [][NextLegacy]_vars

----------------------------------------------------------------------------
(* Vocabulary of the properties *)

Called == ncalls > 0

\* The collaborators are as the last test() call found them.
AsCalled == Called /\ ~changed

Has(seq, x) == \E i \in 1..Len(seq) : seq[i] = x

OfKind(seq, kind) == SelectSeq(seq, LAMBDA m : m.kind = kind)

AllSteps ==
    <<"_verify_args", "_get_version_internal", "_get_version_external",
      "_verify_version_numbers", "_compare">>

\* The arguments pass _verify_args.
ArgsValid == src \in _SOURCES /\ ~(src = GitSrc /\ path = None)

\* The object as __init__ leaves it.
Fresh == [Self EXCEPT !.vers = args.version, !.extvers = None]

\* The tag listing or the registry hands out a version.
GitDelivers ==
    git.exc = NoExc /\ git.returncode = 0 /\ FilterNonEmpty(Split(git.stdout, "\n")) # <<>>
PypiDelivers ==
    pypi.exc = NoExc /\ pypi.status = 200 /\ pypi.body = "json"

\* The last call resolved the external version it holds.
ResolvedInCall ==
    /\ AsCalled
    /\ Has(steps, "_get_version_external")
    /\ \/ src = GitSrc /\ GitDelivers
       \/ src = PypiSrc /\ PypiDelivers

\* A failure of the registry: status other than 200, network error, a body
\* that is not JSON, JSON without info.version.
RegistryFailure ==
    \/ pypi.exc # NoExc
    \/ pypi.status # 200
    \/ pypi.body \in {"notjson", "nokey"}

----------------------------------------------------------------------------
(* Properties *)

\* C1: test() returns True only if all four steps before the comparison
\* succeeded and the comparison found the local version not less than the
\* external one; whenever a step raised (and the catch-all printed a trace)
\* the result is False.
C1_TrueOnlyAfterCleanPipeline ==
    (Called /\ result) =>
        /\ steps = AllSteps
        /\ OfKind(out, "Traceback") = <<>>
        /\ Parse(vers).valid /\ Parse(extvers).valid
        /\ ~VersionLess(Parse(vers), Parse(extvers))

\* C2: for a pair of resolved, valid version strings, local < external gives
\* exactly one 'later version' warning naming project, installed version and
\* repo version in that order, and the result False; local >= external gives
\* the result True and no output at all.
C2_CompareOutcome ==
    (ResolvedInCall /\ Parse(vers).valid /\ Parse(extvers).valid) =>
        IF VersionLess(Parse(vers), Parse(extvers))
        THEN out = <<LaterMsg(name, vers, extvers)>> /\ ~result
        ELSE out = <<>> /\ result

C2_Witness ==
    /\ ResolvedInCall
    /\ Parse(vers).valid /\ Parse(extvers).valid
    /\ VersionLess(Parse(vers), Parse(extvers))
    /\ out = <<LaterMsg(name, vers, extvers)>>

\* C3: no exception propagates out of test(); it returns a boolean whatever
\* the arguments are and whatever the collaborators do, raising included.
C3_NothingPropagates == raised = NoExc /\ result \in BOOLEAN

C3_Witness ==
    /\ AsCalled
    /\ pypi.exc = "ConnectionError"
    /\ Has(io, "http")
    /\ Has(out, TracebackMsg("ConnectionError", <<>>))
    /\ raised = NoExc

\* C4: with a source that is neither 'git' nor 'pypi', or with 'git' and no
\* path, _verify_args raises RuntimeError as the first and only step, no
\* collaborator is invoked, the traceback naming the RuntimeError is the
\* only output and test() returns False.
C4_ConfigurationError ==
    (Called /\ ~ArgsValid) =>
        /\ steps = <<"_verify_args">>
        /\ io = <<>>
        /\ out = IF src \notin _SOURCES
                 THEN <<TracebackMsg("RuntimeError: Invalid source argument provided",
                                     <<src>>)>>
                 ELSE <<TracebackMsg(
                          "RuntimeError: A path argument must be provided for a 'git' source.",
                          <<>>)>>
        /\ ~result
        /\ raised = NoExc

C4_Witness ==
    /\ Called
    /\ src = GitSrc /\ path = None
    /\ steps = <<"_verify_args">>
    /\ Len(out) = 1 /\ out[1].kind = "Traceback"

\* C5: for a 'pypi' source every kind of registry failure ends the call with
\* the "could not be found" warning, without a comparison, returning False.
C5_RegistryFailureReported ==
    (AsCalled /\ src = PypiSrc /\ Has(io, "http") /\ RegistryFailure) =>
        /\ out # <<>> /\ out[Len(out)] = NotFoundMsg(name)
        /\ ~Has(steps, "_compare")
        /\ ~result

\* C6: the result and the messages of every call are those of a call on a
\* newly constructed object with the same arguments and the same
\* collaborator behaviour: nothing an earlier call left behind matters.
C6_NoRetainedState ==
    AsCalled =>
        /\ result = test(Fresh, Env).s
        /\ out = test(Fresh, Env).out

\* C7: a call that finds the collaborators as the call before it found them
\* returns the same result and prints the same messages as that call.
C7_Idempotent == repeat => (result = prev.result /\ out = prev.out)

C7_Witness ==
    /\ repeat
    /\ args.version = None /\ vers # None
    /\ io = <<"git">>
    /\ out # <<>>

\* C8: when the object holds no version and the project is not installed,
\* test() prints the "not installed" warning and nothing else, looks up the
\* metadata and invokes no other collaborator, keeps the version unset and
\* returns False.
C8_NotInstalled ==
    [][(ncalls' = ncalls + 1 /\ ArgsValid /\ vers = None
            /\ metadata.exc = "PackageNotFoundError") =>
        /\ out' = <<NotInstalledMsg(name)>>
        /\ io' = <<"metadata">>
        /\ ~Has(steps', "_get_version_external")
        /\ vers' = None
        /\ ~result']_vars

C8_Witness ==
    /\ AsCalled /\ ArgsValid
    /\ args.version = None /\ vers = None
    /\ metadata.exc = "PackageNotFoundError"
    /\ out = <<NotInstalledMsg(name)>>

\* C9: for a 'git' source, when the tag listing exits non-zero, test() prints
\* the 'Git error' warning with the command's stderr first and the "could
\* not be found" warning last, neither validates nor compares, and returns
\* False.
C9_GitFailureReported ==
    (AsCalled /\ src = GitSrc /\ Has(io, "git") /\ git.exc = NoExc
            /\ git.returncode # 0) =>
        /\ Len(out) >= 2
        /\ out[1] = GitErrorMsg(git.stderr)
        /\ out[Len(out)] = NotFoundMsg(name)
        /\ ~Has(steps, "_verify_version_numbers")
        /\ ~Has(steps, "_compare")
        /\ ~result

\* C10: in a call that reaches the validation step, an 'invalid version'
\* warning is printed for each invalid string, the local one first, and for
\* no other; if any is invalid the call returns False without comparing.
C10_ValidationComplete ==
    (Called /\ Has(steps, "_verify_version_numbers")) =>
        /\ OfKind(out, "invalid version") =
              (IF Parse(vers).valid THEN <<>> ELSE <<InvalidMsg(vers)>>)
              \o (IF Parse(extvers).valid THEN <<>> ELSE <<InvalidMsg(extvers)>>)
        /\ (~Parse(vers).valid \/ ~Parse(extvers).valid) =>
              (~result /\ ~Has(steps, "_compare"))

C10_Witness ==
    /\ Called
    /\ Has(steps, "_verify_version_numbers")
    /\ ~Parse(vers).valid /\ ~Parse(extvers).valid
    /\ Len(out) = 2

\* The text has a non-empty line.
HasLine(s) == \E i \in 1..Len(s) : s[i] # "\n"

\* The text without its trailing newlines.
RECURSIVE StripNewlines(_)
StripNewlines(s) ==
    IF s # <<>> /\ s[Len(s)] = "\n"
    THEN StripNewlines(SubSeq(s, 1, Len(s) - 1))
    ELSE s

\* The tag listing of the last call succeeded with at least one non-empty line.
GitListedTags ==
    /\ AsCalled
    /\ src = GitSrc /\ Has(io, "git")
    /\ git.exc = NoExc /\ git.returncode = 0
    /\ HasLine(git.stdout)

\* C11: after a successful tag listing with a non-empty line, the external
\* version is the text that ends the last non-empty line and starts after
\* that line's last "/" (or at the start of the line): it depends on no
\* earlier line and on no trailing empty line, and a leading "v" is kept.
C11_TagExtraction ==
    GitListedTags =>
        LET t == StripNewlines(git.stdout)
            n == Len(extvers)
        IN  /\ n <= Len(t)
            /\ SubSeq(t, Len(t) - n + 1, Len(t)) = extvers
            /\ \A i \in 1..n : extvers[i] \notin {"/", "\n"}
            /\ n = Len(t) \/ t[Len(t) - n] \in {"/", "\n"}

C11_Witness ==
    /\ GitListedTags
    /\ git.stdout = RefLine(Vv09) \o RefLine(Vv130)
    /\ extvers = Vv130

\* C12: for a 'git' source, when the tag listing exits with status zero and
\* no non-empty line, test() prints the 'Git error' warning with the
\* command's stderr, leaves the external version unresolved, prints the
\* "could not be found" warning last and returns False.
C12_EmptyListingReported ==
    (AsCalled /\ src = GitSrc /\ Has(io, "git") /\ git.exc = NoExc
            /\ git.returncode = 0 /\ ~HasLine(git.stdout)) =>
        /\ Has(out, GitErrorMsg(git.stderr))
        /\ extvers = None
        /\ out # <<>> /\ out[Len(out)] = NotFoundMsg(name)
        /\ ~result

\* The traceback of the RuntimeError that _verify_args raises for a 'git'
\* source without a path.
PathErrorMsg ==
    TracebackMsg("RuntimeError: A path argument must be provided for a 'git' source.",
                 <<>>)

\* C13 as stated: a 'git' request whose path is the empty string is rejected
\* like a missing path: _verify_args raises RuntimeError as the only step,
\* before any I/O, and the git subprocess is never started.
C13_EmptyPathRejected ==
    (Called /\ src = GitSrc /\ path = <<>>) =>
        /\ steps = <<"_verify_args">>
        /\ io = <<>>
        /\ out = <<PathErrorMsg>>
        /\ ~result

\* C13 amended: only a path of None is rejected as a configuration error
\* before any I/O; a path that is the empty string passes _verify_args, local
\* resolution runs, and whenever the object holds a local version the git
\* subprocess was started with the empty location.
C13_OnlyNonePathRejected ==
    /\ (Called /\ src = GitSrc /\ path = None) =>
            /\ steps = <<"_verify_args">>
            /\ io = <<>>
            /\ out = <<PathErrorMsg>>
            /\ ~result
    /\ (Called /\ src = GitSrc /\ path = <<>>) =>
            /\ Len(steps) >= 2
            /\ steps[1] = "_verify_args"
            /\ steps[2] = "_get_version_internal"
            /\ ~Has(out, PathErrorMsg)
            /\ vers # None => Has(io, "git")

C13_Witness ==
    /\ Called
    /\ src = GitSrc /\ path = <<>>
    /\ Has(steps, "_get_version_external")
    /\ Has(io, "git")

\* C14: a call enters _compare only with both version strings resolved and
\* both found valid by the validation step of the same call; a call that
\* ends with a local or external version unresolved or invalid made no
\* comparison and printed an error.
C14_CompareOnlyValidated ==
    /\ (Called /\ Has(steps, "_compare")) =>
            /\ vers # None /\ extvers # None
            /\ Parse(vers).valid /\ Parse(extvers).valid
            /\ Has(steps, "_verify_version_numbers")
            /\ OfKind(out, "invalid version") = <<>>
    /\ (Called /\ (vers = None \/ extvers = None
                     \/ ~Parse(vers).valid \/ ~Parse(extvers).valid)) =>
            /\ ~Has(steps, "_compare")
            /\ out # <<>>
            /\ out[Len(out)].kind \in
                 {"Traceback", "not installed", "invalid version", "could not be found"}

C14_Witness ==
    /\ Called
    /\ steps = <<"_verify_args", "_get_version_internal", "_get_version_external",
                 "_verify_version_numbers">>
    /\ Parse(vers).valid /\ extvers # None /\ ~Parse(extvers).valid
    /\ out = <<InvalidMsg(extvers)>>

\* C16: in a call that starts with no version held and finds the project
\* installed, an installed version that is not a valid version string makes
\* test() print the 'invalid version' warning for that string and nothing
\* else, keep the version unset, skip external resolution and return False; a
\* valid installed version becomes the local version and external resolution
\* is entered.
C16_InstalledVersionChecked ==
    [][(ncalls' = ncalls + 1 /\ ArgsValid /\ vers = None
            /\ metadata.exc = NoExc) =>
        IF Parse(metadata.version).valid
        THEN /\ vers' = metadata.version
             /\ Has(steps', "_get_version_external")
             /\ OfKind(out', "invalid version") \in
                   {<<>>, <<InvalidMsg(extvers')>>}
        ELSE /\ out' = <<InvalidMsg(metadata.version)>>
             /\ io' = <<"metadata">>
             /\ vers' = None
             /\ ~Has(steps', "_get_version_external")
             /\ ~result']_vars

C16_Witness ==
    /\ AsCalled /\ ArgsValid
    /\ args.version = None /\ vers = None
    /\ metadata.exc = NoExc /\ ~Parse(metadata.version).valid
    /\ out = <<InvalidMsg(metadata.version)>>
    /\ steps = <<"_verify_args", "_get_version_internal">>

\* The upper-case form of a lower-case letter of 'git' and 'pypi'.
UpperOf(ch) ==
    CASE ch = "g" -> "G" [] ch = "i" -> "I" [] ch = "t" -> "T"
      [] ch = "p" -> "P" [] ch = "y" -> "Y"
      [] OTHER -> ch

\* s spells word in some letter case.
IsCaseVariant(s, word) ==
    /\ Len(s) = Len(word)
    /\ \A i \in 1..Len(s) : s[i] \in {word[i], UpperOf(word[i])}

\* The call ended in the traceback of the 'Invalid source' RuntimeError.
InvalidSourcePath ==
    /\ steps = <<"_verify_args">>
    /\ io = <<>>
    /\ Len(out) = 1
    /\ out[1].kind = "Traceback"
    /\ out[1].exc = "RuntimeError: Invalid source argument provided"
    /\ ~result

\* C17: a source argument that spells 'git' or 'pypi' in any letter case is
\* not taken for an invalid source and external resolution uses the tag
\* listing for 'git' and the registry for 'pypi', as for the lower-case
\* spelling; any other source argument ends every call in the 'Invalid
\* source' configuration error.
C17_SourceCaseInsensitive ==
    Called =>
        IF IsCaseVariant(args.source, GitSrc)
        THEN /\ ~InvalidSourcePath
             /\ path # None => Has(steps, "_get_version_internal")
             /\ Has(steps, "_get_version_external") => io[Len(io)] = "git"
             /\ ~Has(io, "http")
        ELSE IF IsCaseVariant(args.source, PypiSrc)
        THEN /\ ~InvalidSourcePath
             /\ Has(steps, "_get_version_internal")
             /\ Has(steps, "_get_version_external") => io[Len(io)] = "http"
             /\ ~Has(io, "git")
        ELSE InvalidSourcePath

C17_Witness ==
    /\ Called
    /\ args.source = <<"G", "I", "T">>
    /\ Has(steps, "_get_version_external")
    /\ io[Len(io)] = "git"

\* The described tag without its leading "v".
WithoutV(tag) == IF tag # <<>> /\ tag[1] = "v" THEN Tail(tag) ELSE tag

\* C15: the legacy VersionCheck(v) and its test() raise no exception in any
\* repository state; where 'git describe --tags' succeeds the external
\* version is the described tag without its leading "v"; and test() prints
\* at most the one warning, only when the local version is behind.
C15_LegacyWarningOnly ==
    /\ legacy.raised = NoExc
    /\ (legacy.pc \in {"constructed", "tested"} /\ legacy.repo.exists
            /\ legacy.repo.returncode = 0) =>
          legacy.git = WithoutV(Strip(legacy.repo.stdout))
    /\ legacy.out \in {<<>>, <<AlertMsg(legacy.v, legacy.git)>>}
    /\ legacy.out # <<>> => VersionLess(Parse(legacy.v), Parse(legacy.git))

====
